---- MODULE Spec2Model ----
(***************************************************************************)
(* Model of the xxl-job executor (executor.go): the run / kill / idleBeat  *)
(* HTTP handlers serialised by executor.mu, the registration table and the *)
(* running table (taskList), the Task objects the tables point to, the     *)
(* contexts created at admission, and the goroutines that run the work     *)
(* functions and call executor.callback when they return.                  *)
(*                                                                         *)
(* Both tables are map[string]*Task (lines 70-75): they hold POINTERS.  A  *)
(* Task object is created once per registered handler by RegTask (line     *)
(* 117), so a pointer is identified here with the handler name it was      *)
(* registered under, and `tasks` is the heap of those objects.             *)
(*                                                                         *)
(* Run requests carry executorTimeout = 0, so every context is made by     *)
(* context.WithCancel (line 163) and ends only when its CancelFunc is      *)
(* invoked.                                                                *)
(*                                                                         *)
(* Two further parts of the executor share no state with the handlers and  *)
(* are followed by specifications of their own: the heartbeat goroutine    *)
(* started by Init together with Run's signal wait and registryRemove      *)
(* (SpecRegistry, with a clock in seconds), and what callback does after   *)
(* its post returns (SpecCallback).                                        *)
(***************************************************************************)
EXTENDS Integers, Sequences, FiniteSets, TLC

\* ------------------------------------------------------------------ bounds
\* Number of admissions (contexts created by runTask) explored by Spec;
\* SpecDeep explores one more.
MaxAdm == 2

Adms == 1..(MaxAdm + 1)
\* Job ids the scheduler sends; 0 is also the zero value of JobID that a
\* failed json.Unmarshal leaves in the request struct.
JobIds == {0, 1}
\* Concurrent HTTP requests being served (one goroutine per request).
Slots == {"r1", "r2"}
\* Handler names given to RegTask before the server starts.
RegNames == {"demoJob", "otherJob"}
\* A handler name that was never registered.
Unregistered == "noSuchJob"

SuccessCode == "success"
FailureCode == "failure"
\* Outcome of a handler that panicked before writing a response.
Panicked == "panic"
NoResp == "none"

coverEarly == "COVER_EARLY"
discardLater == "DISCARD_LATER"
Strategies == {coverEarly, discardLater}

\* nil *Task
NilTask == "nil"

VARIABLES
    mu,          \* executor.mu: TRUE while some handler holds the lock
    pc,          \* per request slot: position in its handler
    req,         \* per request slot: the request being served
    resp,        \* per request slot: what was written to the ResponseWriter
    cxt,         \* per request slot: the context created at line 158 (0: none)
    tasks,       \* heap: the Task object of every registered handler
    runList,     \* executor.runList: key -> pointer (handler name) or NilTask
    nAdm,        \* number of contexts created so far
    adm,         \* per admission: the RunReq it was made for
    cancelCalls, \* per admission: how often its CancelFunc was invoked
    gpc,         \* per admission: position of the goroutine `go task.Run`
    cbSent,      \* per admission: the Param its callback post carried (0: none)
    \* heartbeat goroutine, Run and Stop
    now,         \* seconds since Init
    timerAt,     \* time at which the timer t of registry() fires next
    hbpc,        \* registry(): "wait" at <-t.C, "post" inside e.post
    hbStart,     \* time the last registration attempt started (-1: none yet)
    hbOutcome,   \* how the last finished registration attempt ended
    regPosts,    \* number of /api/registry posts issued
    regBody,     \* body of the last /api/registry post
    runpc,       \* Run: "serve" at <-quit, "remove", "removeWait", "returned"
    runRemovePosts, \* /api/registryRemove posts issued by Run
    stopPosts,   \* /api/registryRemove posts issued by Stop
    removeBody,  \* body of the last /api/registryRemove post
    removeOutcome, \* how Run's de-registration post ended
    \* one invocation of callback after line 328
    cbpc,        \* "idle", "post", "read", "mark"
    cbCode,      \* code passed to callback
    cbMsg,       \* msg passed to callback
    cbOutcome,   \* how the last invocation ended
    alerts       \* alerts sent by the current / last invocation

handlerVars == <<mu, pc, req, resp, cxt, tasks, runList, nAdm, adm, cancelCalls,
                 gpc, cbSent>>
hbVars == <<now, timerAt, hbpc, hbStart, hbOutcome, regPosts, regBody, runpc,
            runRemovePosts, stopPosts, removeBody, removeOutcome>>
alertVars == <<cbpc, cbCode, cbMsg, cbOutcome, alerts>>
\* What no request handler and no work function touches.
outsideHandlers == <<hbVars, alertVars>>

vars == <<handlerVars, hbVars, alertVars>>

\* ------------------------------------------------------------- pure helpers
RECURSIVE Int64ToStr(_)
\* strconv.FormatInt(i, 10) for i >= 0: the sequence of decimal digits.
Int64ToStr(i) == IF i < 10 THEN <<i>> ELSE Int64ToStr(i \div 10) \o <<i % 10>>

Keys == {Int64ToStr(j) : j \in JobIds}

\* taskList.Exists / Get / Set / Del on the running table.
Exists(list, key) == list[key] # NilTask
Get(list, key) == list[key]
Set(list, key, t) == [list EXCEPT ![key] = t]
Del(list, key) == [list EXCEPT ![key] = NilTask]

\* e.regList.Exists(name): the names RegTask stored.
RegExists(name) == name \in RegNames
\* e.regList.Get(name): the pointer RegTask stored under name.
RegGet(name) == name

NoReq == [kind |-> "none", bad |-> FALSE, jobId |-> 0, handler |-> "", strategy |-> ""]
NoAdm == [jobId |-> 0, handler |-> ""]

\* Run requests.  bad: json.Unmarshal returned an error.
RunReqs == [kind : {"run"}, bad : BOOLEAN, jobId : JobIds,
            handler : RegNames \cup {Unregistered}, strategy : Strategies]
\* Kill and idleBeat requests; for a bad body jobId is what Unmarshal left
\* in the struct (0 unless the body set it before the error).
KillReqs == [kind : {"kill"}, bad : BOOLEAN, jobId : JobIds,
             handler : {""}, strategy : {""}]
IdleReqs == [kind : {"idle"}, bad : BOOLEAN, jobId : JobIds,
             handler : {""}, strategy : {""}]
Requests == RunReqs \cup KillReqs \cup IdleReqs

\* Invoking the CancelFunc stored in a Task's Cancel field.
Cancel(calls, c) == [calls EXCEPT ![c] = @ + 1]

\* ------------------------------------------- heartbeat and shutdown: data
\* Seconds between two resets of the heartbeat timer (line 277).
RegistryInterval == 20
\* The clock stops here.
MaxTime == 45
\* Calls of Stop() by the embedding program.
MaxStops == 1

\* Options the executor was built with.
ExecutorIp == "127.0.0.1"
ExecutorPort == "9999"
RegistryKey == "golang-jobs"

\* Line 76: e.opts.ExecutorIp + ":" + e.opts.ExecutorPort.
address == <<ExecutorIp, ":", ExecutorPort>>

NoBody == [RegistryGroup |-> "", RegistryKey |-> "", RegistryValue |-> <<>>]

\* Lines 266-271: the record registry() marshals once, before its loop.
RegistryParam ==
    [RegistryGroup |-> "EXECUTOR", RegistryKey |-> RegistryKey,
     RegistryValue |-> <<"http://">> \o address]

\* A de-registration record that names the bare address.
RemoveParamBare ==
    [RegistryGroup |-> "EXECUTOR", RegistryKey |-> RegistryKey,
     RegistryValue |-> address]

\* Lines 306-311: the record registryRemove() marshals.
RemoveParam ==
    [RegistryGroup |-> "EXECUTOR", RegistryKey |-> RegistryKey,
     RegistryValue |-> <<"http://">> \o address]

\* Lines 279-296: the ways one registration attempt ends.
RegistryOutcomes == {"transportErr", "readErr", "badCode", "ok"}
\* Lines 316-323: the ways the de-registration post ends.
RemoveOutcomes == {"transportErr", "ok"}

\* Line 264: time.NewTimer(0); the goroutine started at line 77 waits for it.
InitRegistry ==
    /\ now = 0
    /\ timerAt = 0
    /\ hbpc = "wait"
    /\ hbStart = -1
    /\ hbOutcome = "none"
    /\ regPosts = 0
    /\ regBody = NoBody
    /\ runpc = "serve"
    /\ runRemovePosts = 0
    /\ stopPosts = 0
    /\ removeBody = NoBody
    /\ removeOutcome = "none"

\* --------------------------------------------------- callback alerts: data
\* Outcome messages of work functions, as sequences of characters.
Msgs ==
    { <<>>,
      <<"o", "k">>,
      <<"d", "o", "n", "e">>,
      <<"f", "a", "l", "l">>,
      <<"e", "r", "r">>,
      <<"f", "a", "i", "l">>,
      <<"F", "A", "I", "L">>,
      <<"J", "o", "b", " ", "F", "a", "i", "l", "e", "d">>,
      <<"e", "r", "r", "o", "r">>,
      <<"n", "o", " ", "E", "R", "R", "O", "R", "S">> }

UpperCase == <<"A", "B", "C", "D", "E", "F", "G", "H", "I", "J", "K", "L", "M",
               "N", "O", "P", "Q", "R", "S", "T", "U", "V", "W", "X", "Y", "Z">>
LowerCase == <<"a", "b", "c", "d", "e", "f", "g", "h", "i", "j", "k", "l", "m",
               "n", "o", "p", "q", "r", "s", "t", "u", "v", "w", "x", "y", "z">>

\* strings.ToLower (line 343) on ASCII text.
ToLower(m) ==
    [i \in 1..Len(m) |->
        IF \E k \in 1..Len(UpperCase) : UpperCase[k] = m[i]
        THEN LowerCase[CHOOSE k \in 1..Len(UpperCase) : UpperCase[k] = m[i]]
        ELSE m[i]]

\* strings.Contains (line 344).
Contains(m, sub) ==
    \E i \in 1..(Len(m) - Len(sub) + 1) : SubSeq(m, i, i + Len(sub) - 1) = sub

\* Lines 343-344: the test that guards the execution-failed alert.
HasFailureMarker(m) ==
    \/ Contains(ToLower(m), <<"f", "a", "i", "l">>)
    \/ Contains(ToLower(m), <<"e", "r", "r", "o", "r">>)

\* Line 331 and line 345: the two alerts callback can send.
CallbackFailedAlert == "task callback failed alert"
ExecutionFailedAlert == "task execution failed alert"

InitCallback ==
    /\ cbpc = "idle"
    /\ cbCode = SuccessCode
    /\ cbMsg = <<>>
    /\ cbOutcome = "none"
    /\ alerts = {}

\* ---------------------------------------------------------------- Init
\* After Init (lines 65-78) and the RegTask calls (lines 116-121): both
\* tables built, one zero-valued Task per handler name, nothing running.
Init ==
    /\ mu = FALSE
    /\ pc = [s \in Slots |-> "idle"]
    /\ req = [s \in Slots |-> NoReq]
    /\ resp = [s \in Slots |-> NoResp]
    /\ cxt = [s \in Slots |-> 0]
    /\ tasks = [h \in RegNames |->
                  [Id |-> 0, Name |-> "", Param |-> 0, Ext |-> 0, Cancel |-> 0]]
    /\ runList = [k \in Keys |-> NilTask]
    /\ nAdm = 0
    /\ adm = [n \in Adms |-> NoAdm]
    /\ cancelCalls = [n \in Adms |-> 0]
    /\ gpc = [n \in Adms |-> "none"]
    /\ cbSent = [n \in Adms |-> 0]
    /\ InitRegistry
    /\ InitCallback

\* ------------------------------------------------- request handlers: common
Key(s) == Int64ToStr(req[s].jobId)

\* Requests still inside a handler that may create a context.
RunsInFlight == {t \in Slots : pc[t] # "idle" /\ req[t].kind = "run"}

\* net/http routes a request to its handler (lines 89-94) and starts the
\* goroutine that serves it; the body is not read yet.  cap bounds the
\* number of admissions of a behaviour.
Receive(s, cap) ==
    /\ pc[s] = "idle"
    /\ \E k \in {"run", "kill", "idle"} :
         /\ k = "run" => nAdm + Cardinality(RunsInFlight) < cap
         /\ req' = [req EXCEPT ![s] = [NoReq EXCEPT !.kind = k]]
    /\ pc' = [pc EXCEPT ![s] = "lock"]
    /\ UNCHANGED <<mu, resp, cxt, tasks, runList, nAdm, adm, cancelCalls, gpc>>
    /\ UNCHANGED <<cbSent, outsideHandlers>>

\* A lock that never blocks (the handlers run unserialised).
CanLockNoWait == TRUE

\* e.mu.Lock() blocks while another handler holds the lock.
CanLock == ~mu

\* Lines 125-130, 185-189, 241-246: take the lock, then read and decode the
\* body of the request.
Lock(s) ==
    /\ pc[s] = "lock"
    /\ CanLock
    /\ mu' = TRUE
    /\ \E r \in Requests :
         /\ r.kind = req[s].kind
         /\ req' = [req EXCEPT ![s] = r]
    /\ pc' = [pc EXCEPT ![s] = "check"]
    /\ UNCHANGED <<resp, cxt, tasks, runList, nAdm, adm, cancelCalls, gpc>>
    /\ UNCHANGED <<cbSent, outsideHandlers>>

\* defer e.mu.Unlock(): the handler returns, its locals are gone.
Unlock(s) ==
    /\ pc[s] = "unlock"
    /\ mu' = FALSE
    /\ pc' = [pc EXCEPT ![s] = "idle"]
    /\ req' = [req EXCEPT ![s] = NoReq]
    /\ resp' = [resp EXCEPT ![s] = NoResp]
    /\ cxt' = [cxt EXCEPT ![s] = 0]
    /\ UNCHANGED <<tasks, runList, nAdm, adm, cancelCalls, gpc>>
    /\ UNCHANGED <<cbSent, outsideHandlers>>

\* ------------------------------------------------------------------ runTask
\* runTask with the blocking strategy ignored: a running id is always
\* overridden.
RunDecisionAlwaysCover(r, list) ==
    IF r.bad THEN "paramsErr"
    ELSE IF ~RegExists(r.handler) THEN "notRegistered"
    ELSE IF Exists(list, Int64ToStr(r.jobId)) THEN "cover"
    ELSE "admit"

\* runTask with the blocking strategy handled before the registration check.
RunDecisionBlockFirst(r, list) ==
    IF r.bad THEN "paramsErr"
    ELSE IF Exists(list, Int64ToStr(r.jobId))
         THEN IF r.strategy = coverEarly THEN "cover" ELSE "conflict"
    ELSE IF ~RegExists(r.handler) THEN "notRegistered"
    ELSE "admit"

\* Lines 130-156: what runTask decides from the request and the two tables.
RunDecision(r, list) ==
    IF r.bad THEN "paramsErr"
    ELSE IF ~RegExists(r.handler) THEN "notRegistered"
    ELSE IF Exists(list, Int64ToStr(r.jobId))
         THEN IF r.strategy = coverEarly THEN "cover" ELSE "conflict"
    ELSE "admit"

RunCheck(s) ==
    /\ pc[s] = "check"
    /\ req[s].kind = "run"
    /\ LET d == RunDecision(req[s], runList) IN
         \/ /\ d \in {"paramsErr", "notRegistered", "conflict"}
            /\ resp' = [resp EXCEPT ![s] = FailureCode]
            /\ pc' = [pc EXCEPT ![s] = "unlock"]
         \/ /\ d = "cover"
            /\ pc' = [pc EXCEPT ![s] = "cover"]
            /\ UNCHANGED resp
         \/ /\ d = "admit"
            /\ pc' = [pc EXCEPT ![s] = "bind"]
            /\ UNCHANGED resp
    /\ UNCHANGED <<mu, req, cxt, tasks, runList, nAdm, adm, cancelCalls, gpc>>
    /\ UNCHANGED <<cbSent, outsideHandlers>>

\* Lines 146-150: oldTask := Get(key); if non-nil, oldTask.Cancel() and
\* Del(Int64ToStr(oldTask.Id)).  A callback may have emptied the slot since
\* the Exists of line 144, then oldTask is nil.
RunCover(s) ==
    /\ pc[s] = "cover"
    /\ LET oldTask == Get(runList, Key(s)) IN
         IF oldTask # NilTask
         THEN /\ cancelCalls' = Cancel(cancelCalls, tasks[oldTask].Cancel)
              /\ runList' = Del(runList, Int64ToStr(tasks[oldTask].Id))
         ELSE UNCHANGED <<cancelCalls, runList>>
    /\ pc' = [pc EXCEPT ![s] = "bind"]
    /\ UNCHANGED <<mu, req, resp, cxt, tasks, nAdm, adm, gpc>>
    /\ UNCHANGED <<cbSent, outsideHandlers>>

\* Lines 158-168: the fields written into the Task for request r, n being
\* the context (and RunReq) created for this admission.
BoundTask(r, n) ==
    [Id |-> r.jobId, Name |-> r.handler, Param |-> n, Ext |-> n, Cancel |-> n]

\* Lines 158-168: a new context, then task := e.regList.Get(handler) and the
\* fields of THAT object are overwritten.
RunBind(s) ==
    /\ pc[s] = "bind"
    /\ LET n == nAdm + 1
           task == RegGet(req[s].handler) IN
         /\ nAdm' = n
         /\ cxt' = [cxt EXCEPT ![s] = n]
         /\ adm' = [adm EXCEPT ![n] = [jobId |-> req[s].jobId,
                                       handler |-> req[s].handler]]
         /\ tasks' = [tasks EXCEPT ![task] = BoundTask(req[s], n)]
    /\ pc' = [pc EXCEPT ![s] = "set"]
    /\ UNCHANGED <<mu, req, resp, runList, cancelCalls, gpc>>
    /\ UNCHANGED <<cbSent, outsideHandlers>>

\* Lines 170-180: store the pointer under task.Id, start the goroutine,
\* write the success response.
RunSet(s) ==
    /\ pc[s] = "set"
    /\ LET task == RegGet(req[s].handler) IN
         runList' = Set(runList, Int64ToStr(tasks[task].Id), task)
    /\ gpc' = [gpc EXCEPT ![cxt[s]] = "running"]
    /\ resp' = [resp EXCEPT ![s] = SuccessCode]
    /\ pc' = [pc EXCEPT ![s] = "unlock"]
    /\ UNCHANGED <<mu, req, cxt, tasks, nAdm, adm, cancelCalls>>
    /\ UNCHANGED <<cbSent, outsideHandlers>>

\* ----------------------------------------------------------------- killTask
\* Lines 187-194: the Unmarshal error is ignored; absent id -> failure.
KillCheck(s) ==
    /\ pc[s] = "check"
    /\ req[s].kind = "kill"
    /\ IF ~Exists(runList, Key(s))
       THEN /\ resp' = [resp EXCEPT ![s] = FailureCode]
            /\ pc' = [pc EXCEPT ![s] = "unlock"]
       ELSE /\ pc' = [pc EXCEPT ![s] = "kill"]
            /\ UNCHANGED resp
    /\ UNCHANGED <<mu, req, cxt, tasks, runList, nAdm, adm, cancelCalls, gpc>>
    /\ UNCHANGED <<cbSent, outsideHandlers>>

\* Lines 195-198: task := Get(key); task.Cancel(); Del(key); success.
\* If a callback removed the entry since line 190, task is nil and
\* task.Cancel() panics: net/http recovers, nothing is written.
KillDo(s) ==
    /\ pc[s] = "kill"
    /\ LET task == Get(runList, Key(s)) IN
         IF task # NilTask
         THEN /\ cancelCalls' = Cancel(cancelCalls, tasks[task].Cancel)
              /\ runList' = Del(runList, Key(s))
              /\ resp' = [resp EXCEPT ![s] = SuccessCode]
         ELSE /\ resp' = [resp EXCEPT ![s] = Panicked]
              /\ UNCHANGED <<cancelCalls, runList>>
    /\ pc' = [pc EXCEPT ![s] = "unlock"]
    /\ UNCHANGED <<mu, req, cxt, tasks, nAdm, adm, gpc>>
    /\ UNCHANGED <<cbSent, outsideHandlers>>

\* ----------------------------------------------------------------- idleBeat
\* idleBeat that never consults the running table.
IdleResultAlwaysIdle(r, list) ==
    IF r.bad THEN FailureCode ELSE SuccessCode

\* Lines 246-258: the response idleBeat writes.
IdleResult(r, list) ==
    IF r.bad THEN FailureCode
    ELSE IF Exists(list, Int64ToStr(r.jobId)) THEN FailureCode
    ELSE SuccessCode

IdleCheck(s) ==
    /\ pc[s] = "check"
    /\ req[s].kind = "idle"
    /\ resp' = [resp EXCEPT ![s] = IdleResult(req[s], runList)]
    /\ pc' = [pc EXCEPT ![s] = "unlock"]
    /\ UNCHANGED <<mu, req, cxt, tasks, runList, nAdm, adm, cancelCalls, gpc>>
    /\ UNCHANGED <<cbSent, outsideHandlers>>

\* --------------------------------------------- work functions and callback
\* Line 328: the key callback deletes.  The closure of lines 176-178 holds
\* the pointer taken at admission; the key is whatever task.Id holds NOW.
CallbackKey(n) == Int64ToStr(tasks[RegGet(adm[n].handler)].Id)

\* The work function of admission n returns and Task.Run calls the closure
\* of lines 176-178, which runs e.callback up to line 328.  callback does
\* not take e.mu.
Return(n) ==
    /\ gpc[n] = "running"
    /\ runList' = Del(runList, CallbackKey(n))
    /\ gpc' = [gpc EXCEPT ![n] = "post"]
    /\ UNCHANGED <<mu, pc, req, resp, cxt, tasks, nAdm, adm, cancelCalls>>
    /\ UNCHANGED <<cbSent, outsideHandlers>>

\* Line 329: the request the callback post reports on, returnCall(task.Param,
\* ...): whatever task.Param points to when the post is built.
CallbackParam(n) == tasks[RegGet(adm[n].handler)].Param

\* Line 329: the callback post is issued.  What callback does once the post
\* returns (lines 330-348) touches no table; see NextCallback.
Post(n) ==
    /\ gpc[n] = "post"
    /\ cbSent' = [cbSent EXCEPT ![n] = CallbackParam(n)]
    /\ gpc' = [gpc EXCEPT ![n] = "done"]
    /\ UNCHANGED <<mu, pc, req, resp, cxt, tasks, runList, nAdm, adm, cancelCalls>>
    /\ UNCHANGED outsideHandlers

\* --------------------------------------------------------------------- Next
Step(cap) ==
    \/ \E s \in Slots : Receive(s, cap)
    \/ \E s \in Slots : Lock(s)
    \/ \E s \in Slots : RunCheck(s)
    \/ \E s \in Slots : RunCover(s)
    \/ \E s \in Slots : RunBind(s)
    \/ \E s \in Slots : RunSet(s)
    \/ \E s \in Slots : KillCheck(s)
    \/ \E s \in Slots : KillDo(s)
    \/ \E s \in Slots : IdleCheck(s)
    \/ \E s \in Slots : Unlock(s)
    \/ \E n \in Adms : Return(n)
    \/ \E n \in Adms : Post(n)

Next == Step(MaxAdm)

Spec == Init /\ [][Next]_vars

\* The same program followed for one more admission.
NextDeep == Step(MaxAdm + 1)

SpecDeep == Init /\ [][NextDeep]_vars

\* ------------------------------------------------- heartbeat and shutdown
\* Line 277: t.Reset(20 s), called when the attempt starts.
TimerReset(t) == t + RegistryInterval

\* Lines 275-279: the timer has fired, registry() takes the tick, resets the
\* timer and calls e.post("/api/registry", param).
HbFire ==
    /\ hbpc = "wait"
    /\ timerAt <= now
    /\ timerAt' = TimerReset(now)
    /\ hbStart' = now
    /\ regPosts' = regPosts + 1
    /\ regBody' = RegistryParam
    /\ hbpc' = "post"
    /\ UNCHANGED <<now, hbOutcome, runpc, runRemovePosts, stopPosts, removeBody,
                   removeOutcome>>
    /\ UNCHANGED <<handlerVars, alertVars>>

\* Lines 279-297: e.post returns (however long it took), the attempt is
\* logged and the loop goes back to <-t.C.
HbDone(o) ==
    /\ hbpc = "post"
    /\ hbOutcome' = o
    /\ hbpc' = "wait"
    /\ UNCHANGED <<now, timerAt, hbStart, regPosts, regBody, runpc, runRemovePosts,
                   stopPosts, removeBody, removeOutcome>>
    /\ UNCHANGED <<handlerVars, alertVars>>

\* One second passes.  A goroutine waiting at <-t.C runs as soon as the
\* timer has fired; a post takes as long as the scheduler lets it.
Tick ==
    /\ now < MaxTime
    /\ ~(hbpc = "wait" /\ timerAt <= now)
    /\ now' = now + 1
    /\ UNCHANGED <<timerAt, hbpc, hbStart, hbOutcome, regPosts, regBody, runpc,
                   runRemovePosts, stopPosts, removeBody, removeOutcome>>
    /\ UNCHANGED <<handlerVars, alertVars>>

\* Lines 104-107: Run, blocked at <-quit, receives SIGQUIT, SIGINT or SIGTERM
\* and calls registryRemove.
Signal ==
    /\ runpc = "serve"
    /\ runpc' = "remove"
    /\ UNCHANGED <<now, timerAt, hbpc, hbStart, hbOutcome, regPosts, regBody,
                   runRemovePosts, stopPosts, removeBody, removeOutcome>>
    /\ UNCHANGED <<handlerVars, alertVars>>

\* Lines 303-316 on behalf of Run: the record is built and posted.
RunRemovePost ==
    /\ runpc = "remove"
    /\ removeBody' = RemoveParam
    /\ runRemovePosts' = runRemovePosts + 1
    /\ runpc' = "removeWait"
    /\ UNCHANGED <<now, timerAt, hbpc, hbStart, hbOutcome, regPosts, regBody,
                   stopPosts, removeOutcome>>
    /\ UNCHANGED <<handlerVars, alertVars>>

\* Lines 317-323 and 108: the post returns, registryRemove logs and returns,
\* Run returns nil.
RunRemoveDone(o) ==
    /\ runpc = "removeWait"
    /\ removeOutcome' = o
    /\ runpc' = "returned"
    /\ UNCHANGED <<now, timerAt, hbpc, hbStart, hbOutcome, regPosts, regBody,
                   runRemovePosts, stopPosts, removeBody>>
    /\ UNCHANGED <<handlerVars, alertVars>>

\* Lines 111-113: the embedding program calls Stop(), which is one call of
\* registryRemove.
StopCall ==
    /\ stopPosts < MaxStops
    /\ removeBody' = RemoveParam
    /\ stopPosts' = stopPosts + 1
    /\ UNCHANGED <<now, timerAt, hbpc, hbStart, hbOutcome, regPosts, regBody, runpc,
                   runRemovePosts, removeOutcome>>
    /\ UNCHANGED <<handlerVars, alertVars>>

NextRegistry ==
    \/ HbFire
    \/ \E o \in RegistryOutcomes : HbDone(o)
    \/ Tick
    \/ Signal
    \/ RunRemovePost
    \/ \E o \in RemoveOutcomes : RunRemoveDone(o)
    \/ StopCall

SpecRegistry == Init /\ [][NextRegistry]_vars

\* ----------------------------------------- callback after the running table
\* Line 327: Task.Run hands callback the code and message of a finished task.
CbEnter(code, m) ==
    /\ cbpc = "idle"
    /\ cbCode' = code
    /\ cbMsg' = m
    /\ cbOutcome' = "none"
    /\ alerts' = {}
    /\ cbpc' = "post"
    /\ UNCHANGED <<handlerVars, hbVars>>

\* Lines 329-335: e.post returns; on an error the callback-failed alert is
\* sent and callback returns.
CbPost(err) ==
    /\ cbpc = "post"
    /\ IF err
         THEN /\ alerts' = alerts \cup {CallbackFailedAlert}
              /\ cbOutcome' = "postErr"
              /\ cbpc' = "idle"
         ELSE /\ cbpc' = "read"
              /\ UNCHANGED <<alerts, cbOutcome>>
    /\ UNCHANGED <<cbCode, cbMsg>>
    /\ UNCHANGED <<handlerVars, hbVars>>

\* Lines 336-341: the response body is read; on an error callback returns.
CbRead(err) ==
    /\ cbpc = "read"
    /\ IF err
         THEN /\ cbOutcome' = "readErr"
              /\ cbpc' = "idle"
         ELSE /\ cbpc' = "mark"
              /\ UNCHANGED cbOutcome
    /\ UNCHANGED <<cbCode, cbMsg, alerts>>
    /\ UNCHANGED <<handlerVars, hbVars>>

\* Lines 343-348: the message is searched for a failure marker.
CbMark ==
    /\ cbpc = "mark"
    /\ alerts' = IF HasFailureMarker(cbMsg)
                   THEN alerts \cup {ExecutionFailedAlert}
                   ELSE alerts
    /\ cbOutcome' = "ok"
    /\ cbpc' = "idle"
    /\ UNCHANGED <<cbCode, cbMsg>>
    /\ UNCHANGED <<handlerVars, hbVars>>

NextCallback ==
    \/ \E code \in {SuccessCode, FailureCode}, m \in Msgs : CbEnter(code, m)
    \/ \E err \in BOOLEAN : CbPost(err)
    \/ \E err \in BOOLEAN : CbRead(err)
    \/ CbMark

SpecCallback == Init /\ [][NextCallback]_vars

TypeOK ==
    /\ mu \in BOOLEAN
    /\ pc \in [Slots -> {"idle", "lock", "check", "cover", "bind", "set", "kill", "unlock"}]
    /\ req \in [Slots -> Requests \cup
                  {[NoReq EXCEPT !.kind = k] : k \in {"none", "run", "kill", "idle"}}]
    /\ resp \in [Slots -> {NoResp, SuccessCode, FailureCode, Panicked}]
    /\ nAdm \in 0..(MaxAdm + 1)
    /\ runList \in [Keys -> RegNames \cup {NilTask}]
    /\ gpc \in [Adms -> {"none", "running", "post", "done"}]
    /\ cbSent \in [Adms -> 0..(MaxAdm + 1)]

\* Scheduling of the request goroutines: a handler that holds e.mu runs to its
\* deferred Unlock (lines 125-126, 185-186, 241-242) without waiting for any
\* work function or callback, and a goroutine blocked in e.mu.Lock() gets the
\* mutex eventually.  Work functions (Return) and callback posts (Post) may
\* never complete, and requests need not arrive: no fairness for them.
HandlerStep(s) ==
    \/ RunCheck(s)
    \/ RunCover(s)
    \/ RunBind(s)
    \/ RunSet(s)
    \/ KillCheck(s)
    \/ KillDo(s)
    \/ IdleCheck(s)
    \/ Unlock(s)

Fairness ==
    \A s \in Slots : WF_vars(HandlerStep(s)) /\ SF_vars(Lock(s))

SpecFair == Spec /\ Fairness

\* =================================================================== claims
\* A handler is inside the critical section of executor.mu.
InCS(s) == pc[s] \in {"check", "cover", "bind", "set", "kill", "unlock"}

\* Slot s takes a step of its handler.
Moves(s) == pc'[s] # pc[s]

\* Everything the handlers share: tables, Task objects, contexts, goroutines.
shared == <<runList, tasks, cancelCalls, gpc, nAdm, adm>>

\* The admissions made so far for job id j, and the latest of them: the
\* task an entry of the running table under j was stored for.
AdmsOf(j) == {n \in Adms : n <= nAdm /\ adm[n].jobId = j}
LastAdm(j) == CHOOSE n \in AdmsOf(j) : \A m \in AdmsOf(j) : m <= n

\* The work function of admission n has not returned and its CancelFunc
\* was never invoked.
Live(n) == gpc[n] = "running" /\ cancelCalls[n] = 0

\* C1: the running table holds at most one entry per job id, no two
\* handlers are inside the critical section at once, no two run requests
\* for the same job id are both past the Exists check on the admitting
\* path, and when every admission so far was for one job id and nothing was
\* cancelled (no kill, no override), at most one of its tasks is running:
\* two concurrent runs of an id are never both admitted.
C1_AdmissionAtomic ==
    /\ \A j \in JobIds :
         Cardinality({k \in Keys : k = Int64ToStr(j) /\ Exists(runList, k)}) <= 1
    /\ \A s, t \in Slots : s # t => ~(InCS(s) /\ InCS(t))
    /\ \A s, t \in Slots :
         (/\ s # t
          /\ req[s].kind = "run" /\ req[t].kind = "run"
          /\ req[s].jobId = req[t].jobId
          /\ pc[s] \in {"cover", "bind", "set"})
         => /\ pc[t] \notin {"cover", "bind", "set"}
            /\ ~(pc[t] = "unlock" /\ resp[t] = SuccessCode)
    /\ \A j \in JobIds :
         (/\ \A n \in Adms : n <= nAdm => adm[n].jobId = j
          /\ \A n \in Adms : cancelCalls[n] = 0)
         => Cardinality({n \in AdmsOf(j) : gpc[n] = "running"}) <= 1

\* A run request is between its Exists check and its Set while another run
\* request waits for the lock.
C1_Witness ==
    \E s, t \in Slots :
        /\ s # t
        /\ pc[s] = "set" /\ req[s].strategy = discardLater
        /\ pc[t] = "lock" /\ req[t].kind = "run"

\* C2: for every job id at most one admitted task has a work function that
\* has not returned and a cancellation capability that was never invoked.
C2_OneLiveInstancePerJob ==
    \A j \in JobIds : Cardinality({n \in AdmsOf(j) : Live(n)}) <= 1

\* C3: a coverEarly run for an id present in the running table invokes the
\* CancelFunc of the task last admitted under that id exactly once and
\* removes that id's entry, before the new task is bound and stored; the
\* store then puts the new task under that id and the response is success.
C3_CoverCancelsPrior ==
    [][\A s \in Slots :
         /\ (pc[s] = "cover" /\ Moves(s) /\ Exists(runList, Key(s)))
            => /\ cancelCalls' = Cancel(cancelCalls, LastAdm(req[s].jobId))
               /\ ~Exists(runList', Key(s))
               /\ pc'[s] = "bind"
         /\ (pc[s] = "set" /\ Moves(s) /\ req[s].strategy = coverEarly)
            => /\ Exists(runList', Key(s))
               /\ resp'[s] = SuccessCode]_vars

\* A run request with a strategy other than coverEarly, a registered handler
\* and a job id that is in the running table.
Conflicting(s) ==
    /\ req[s].kind = "run" /\ ~req[s].bad
    /\ RegExists(req[s].handler)
    /\ req[s].strategy # coverEarly
    /\ Exists(runList, Key(s))

\* C4: a run with a strategy other than coverEarly for an id present in the
\* running table responds failure and none of its steps changes the running
\* table, a Task object, a context or the set of dispatched goroutines.
C4_ConflictLeavesState ==
    [][\A s \in Slots :
         /\ (pc[s] = "check" /\ Conflicting(s) /\ Moves(s))
            => /\ resp'[s] = FailureCode
               /\ pc'[s] = "unlock"
               /\ UNCHANGED shared
         /\ (/\ pc[s] = "unlock" /\ req[s].kind = "run"
             /\ resp[s] = FailureCode /\ Moves(s))
            => UNCHANGED shared]_vars

\* A conflicting run request has been answered with failure.
C4_Witness ==
    \E s \in Slots :
        pc[s] = "unlock" /\ Conflicting(s) /\ resp[s] = FailureCode

\* C5: kill for an absent id responds failure and mutates nothing; kill for
\* a present id invokes the CancelFunc of the task last admitted under that
\* id and no other, removes exactly that id's entry and responds success.
C5_KillContract ==
    [][\A s \in Slots :
         (req[s].kind = "kill" /\ ~req[s].bad /\ Moves(s))
         => /\ (pc[s] = "check" /\ ~Exists(runList, Key(s)))
               => /\ resp'[s] = FailureCode
                  /\ pc'[s] = "unlock"
                  /\ UNCHANGED shared
            /\ (pc[s] = "kill" /\ Exists(runList, Key(s)))
               => /\ cancelCalls' = Cancel(cancelCalls, LastAdm(req[s].jobId))
                  /\ runList' = Del(runList, Key(s))
                  /\ resp'[s] = SuccessCode
                  /\ UNCHANGED <<tasks, gpc>>]_vars

\* C6: a well-formed idleBeat responds failure iff the running table holds
\* the id when the request is served, and while an idleBeat is being served
\* the running table is changed by no run or kill handler (only a callback
\* of a finishing task can change it).
C6_IdleBeatExact ==
    [][\A s \in Slots :
         (req[s].kind = "idle" /\ ~req[s].bad /\ InCS(s))
         => /\ (pc[s] = "check" /\ Moves(s))
               => /\ resp'[s] = FailureCode <=> Exists(runList, Key(s))
                  /\ resp'[s] \in {FailureCode, SuccessCode}
            /\ (runList' # runList => \E n \in Adms : gpc'[n] # gpc[n])
            /\ (\A t \in Slots : t # s => ~InCS(t))]_vars

\* An idleBeat reported busy for a running id while a run or kill request
\* waits for the lock.
C6_Witness ==
    \E s, t \in Slots :
        /\ s # t
        /\ pc[s] = "unlock" /\ req[s].kind = "idle" /\ ~req[s].bad
        /\ resp[s] = FailureCode /\ Exists(runList, Key(s))
        /\ pc[t] = "lock" /\ req[t].kind \in {"run", "kill"}

\* C7: while no CancelFunc was ever invoked (no kill, no override), the id
\* of every task whose work function is still running is in the running
\* table, and once the latest task of an id has returned the id is removed.
C7_PresentUntilReturn ==
    (\A m \in Adms : cancelCalls[m] = 0)
    => \A n \in Adms :
         /\ gpc[n] = "running" => Exists(runList, Int64ToStr(adm[n].jobId))
         /\ (gpc[n] \in {"post", "done"} /\ n = LastAdm(adm[n].jobId))
            => ~Exists(runList, Int64ToStr(adm[n].jobId))

\* C8: binding the task of a run for job id Y changes no field of a Task
\* that is in the running table under another job id.
C8_AdmissionFresh ==
    [][\A s \in Slots :
         (pc[s] = "bind" /\ Moves(s))
         => \A k \in Keys :
              (k # Key(s) /\ Exists(runList, k))
              => tasks'[Get(runList, k)] = tasks[Get(runList, k)]]_vars

\* A well-formed run request naming an unregistered handler.
NotRegistered(s) ==
    req[s].kind = "run" /\ ~req[s].bad /\ ~RegExists(req[s].handler)

\* C9: a run naming an unregistered handler responds failure at its first
\* step and none of its steps changes the running table, a Task object, a
\* context or the dispatched goroutines, whatever its strategy and whether
\* or not its job id is running.
C9_UnregisteredLeavesState ==
    [][\A s \in Slots :
         (NotRegistered(s) /\ InCS(s) /\ Moves(s))
         => /\ UNCHANGED shared
            /\ pc[s] = "check" => (resp'[s] = FailureCode /\ pc'[s] = "unlock")]_vars

\* An unregistered coverEarly run for a running id was answered with failure.
C9_Witness ==
    \E s \in Slots :
        /\ pc[s] = "unlock" /\ NotRegistered(s)
        /\ req[s].strategy = coverEarly
        /\ Exists(runList, Key(s))
        /\ resp[s] = FailureCode

\* C10: a run, kill or idleBeat request with a malformed body is answered
\* with failure and none of its steps changes the running table, a Task
\* object, a context or the dispatched goroutines.
C10_MalformedLeavesState ==
    [][\A s \in Slots :
         (req[s].bad /\ InCS(s) /\ Moves(s))
         => /\ UNCHANGED shared
            /\ pc[s] = "check" => (resp'[s] = FailureCode /\ pc'[s] = "unlock")]_vars

\* C11: every request that reaches the end of its handler has written a
\* response (success or failure); no handler ends in a panic.
C11_OneResponseNoFault ==
    \A s \in Slots : pc[s] = "unlock" => resp[s] \in {SuccessCode, FailureCode}

\* C12: every request that has arrived is answered: its handler reaches its
\* end having written success or failure (and then releases e.mu), although
\* work functions and callback posts may never finish.
C12_RequestAnswered ==
    \A s \in Slots :
        (pc[s] = "lock") ~> (pc[s] = "unlock" /\ resp[s] \in {SuccessCode, FailureCode})

\* C13: the first registration attempt starts at time 0 and attempt k starts
\* 20 (k - 1) seconds after startup, so at no time have more than 20 seconds
\* passed since the start of the last attempt, whatever happened to it.
C13_AttemptEvery20s ==
    /\ regPosts = 0 => now = 0
    /\ regPosts > 0 => /\ hbStart = RegistryInterval * (regPosts - 1)
                       /\ now <= hbStart + RegistryInterval

\* C14: before the signal Run has issued no de-registration post; once the
\* signal has been taken Run issues exactly one, whose body is the record the
\* heartbeat registers with, and however that post ends the next thing Run
\* does is return, without a second post.
C14_OneRemoveOnShutdown ==
    /\ [](/\ runpc \in {"serve", "remove"} => runRemovePosts = 0
          /\ runpc \in {"removeWait", "returned"} =>
                /\ runRemovePosts = 1
                /\ removeBody = RegistryParam)
    /\ [][runpc = "removeWait" /\ runpc' # runpc =>
             /\ runpc' = "returned"
             /\ runRemovePosts' = runRemovePosts]_vars

\* Run has returned after a de-registration post that failed, with the
\* heartbeat registered before.
C14_Witness ==
    /\ runpc = "returned"
    /\ removeOutcome = "transportErr"
    /\ runRemovePosts = 1
    /\ regPosts > 0

\* C15: when the work function of an admission returns, callback removes the
\* running-table entry of the job id that admission was made for, and the
\* callback post carries the request of that same admission, whatever was
\* admitted in between.
C15_CallbackOwnRequest ==
    [][\A n \in Adms :
         /\ (gpc[n] = "running" /\ gpc'[n] = "post")
            => runList' = Del(runList, Int64ToStr(adm[n].jobId))
         /\ (gpc[n] = "post" /\ gpc'[n] = "done")
            => cbSent'[n] = n]_vars

\* An idleBeat request for job id j.
IdleFor(j) == [kind |-> "idle", bad |-> FALSE, jobId |-> j, handler |-> "",
               strategy |-> ""]

\* C16: no callback post is issued before the removal from the running table
\* and each callback issues at most one; once the callback of the latest
\* admission of a job id has passed its removal, an idleBeat for that id
\* finds it idle.
C16_RemovedBeforePost ==
    \A n \in Adms :
        /\ cbSent[n] # 0 => gpc[n] = "done"
        /\ (gpc[n] \in {"post", "done"} /\ n = LastAdm(adm[n].jobId))
           => IdleResult(IdleFor(adm[n].jobId), runList) = SuccessCode

\* C18: no step of a request handler or of a callback changes a field of a
\* registered Task.
C18_RegistrationReadOnly ==
    [][tasks' = tasks]_vars

\* C19: when the work function of a cancelled admission returns, the entry of
\* a task admitted later under the same job id, still running and not
\* cancelled, stays in the running table.
C19_StaleCallbackKeepsEntry ==
    [][\A n, m \in Adms :
         (/\ gpc[n] = "running" /\ gpc'[n] = "post"
          /\ cancelCalls[n] > 0
          /\ n < m /\ m <= nAdm
          /\ adm[m].jobId = adm[n].jobId
          /\ Live(m)
          /\ Exists(runList, Int64ToStr(adm[m].jobId)))
         => Exists(runList', Int64ToStr(adm[m].jobId))]_vars

\* C17: when an invocation of callback has ended, the execution-failed alert
\* was sent if the message contains "fail" or "error" in any letter case,
\* however the post ended, and the callback-failed alert was sent as well if
\* the post failed.
C17_FailureAlertAlways ==
    (cbpc = "idle" /\ cbOutcome # "none")
    => /\ HasFailureMarker(cbMsg) => ExecutionFailedAlert \in alerts
       /\ cbOutcome = "postErr" => CallbackFailedAlert \in alerts

\* C20: once a de-registration post has been issued, by Run or by Stop, no
\* step issues a registration post.
C20_RemoveIsLast ==
    [][runRemovePosts + stopPosts > 0 => regPosts' = regPosts]_vars

====
